---- MODULE Spec2Model ----
(***************************************************************************)
(* es-delete-old-indices (src/src/main.rs): one pass over the indices of   *)
(* one prefix.  Strings are sequences of one-character strings; a          *)
(* NaiveDate is a record [year, month, day]; a Result is a record with a   *)
(* field ok.                                                               *)
(***************************************************************************)
EXTENDS Integers, Sequences, FiniteSets, TLC

VARIABLES args, now, pc, months_cutoff, cat_requests, response, items,
          targets, reported, del_requests, del_errors, fn_in, fn_out

vars == <<args, now, pc, months_cutoff, cat_requests, response, items,
          targets, reported, del_requests, del_errors, fn_in, fn_out>>

----------------------------------------------------------------------------
(* Characters.                                                             *)

\* U+0663 ARABIC-INDIC DIGIT THREE: in the class \d of the regex crate, not an
\* ASCII digit, so str::parse rejects it.
UDigit == "U+0663"

AsciiDigits == {"0", "1", "2", "3", "4", "5", "6", "7", "8", "9"}

IsDigitClass(c) == c \in AsciiDigits \cup {UDigit}

IsSpaceClass(c) == c = " "

DigitVal(c) ==
    CASE c = "0" -> 0 [] c = "1" -> 1 [] c = "2" -> 2 [] c = "3" -> 3
      [] c = "4" -> 4 [] c = "5" -> 5 [] c = "6" -> 6 [] c = "7" -> 7
      [] c = "8" -> 8 [] c = "9" -> 9

\* First UTF-8 byte of a character: str::cmp compares bytes.
ByteOf(c) ==
    CASE c = " " -> 32 [] c = "-" -> 45 [] c = "." -> 46
      [] c \in AsciiDigits -> 48 + DigitVal(c)
      [] c = "p" -> 112 [] c = "x" -> 120
      [] c = UDigit -> 217
      [] OTHER -> 0

ToLower(c) ==
    CASE c = "M" -> "m" [] c = "O" -> "o" [] c = "N" -> "n"
      [] c = "T" -> "t" [] c = "H" -> "h" [] c = "S" -> "s"
      [] OTHER -> c

Lower(s) == [i \in 1..Len(s) |-> ToLower(s[i])]

Ok(v) == [ok |-> TRUE, v |-> v]

Err(e) == [ok |-> FALSE, err |-> e]

\* Number of leading characters of s, from position i on, that are in a class.
RECURSIVE SpanDigits(_, _)
SpanDigits(s, i) ==
    IF i <= Len(s) /\ IsDigitClass(s[i]) THEN 1 + SpanDigits(s, i + 1) ELSE 0

RECURSIVE SpanSpaces(_, _)
SpanSpaces(s, i) ==
    IF i <= Len(s) /\ IsSpaceClass(s[i]) THEN 1 + SpanSpaces(s, i + 1) ELSE 0

RECURSIVE TrimEnd(_)
TrimEnd(s) ==
    IF Len(s) > 0 /\ IsSpaceClass(s[Len(s)])
    THEN TrimEnd(SubSeq(s, 1, Len(s) - 1))
    ELSE s

I32Max == 2147483647

\* str::parse::<i32>() of a string of \d characters: every character an ASCII
\* digit and the value within i32.
RECURSIVE ParseI32From(_, _, _)
ParseI32From(s, i, acc) ==
    IF i > Len(s) THEN Ok(acc)
    ELSE IF s[i] \notin AsciiDigits THEN Err("invalid digit")
    ELSE IF acc > (I32Max - DigitVal(s[i])) \div 10 THEN Err("overflow")
    ELSE ParseI32From(s, i + 1, acc * 10 + DigitVal(s[i]))

ParseI32(s) == IF Len(s) = 0 THEN Err("empty") ELSE ParseI32From(s, 1, 0)

\* str::parse::<u32>() of the second capture, which holds at most two
\* characters: no value of two digits leaves u32.
ParseU32(s) == IF Len(s) = 0 THEN Err("empty") ELSE ParseI32From(s, 1, 0)

----------------------------------------------------------------------------
(* parse_months                                                            *)

UnitForms == { <<"m">>,
               <<"m", "o", "n", "t", "h">>,
               <<"m", "o", "n", "t", "h", "s">> }

\* The first capture of (?i)^\s*(\d+)\s*m(?:onths?)?\s*$ on s, <<>> for no
\* match.  The classes \s, \d and the unit letters are disjoint, so the match
\* is the greedy left-to-right split.
MonthsCaptures(s) ==
    LET i == SpanSpaces(s, 1)
        n == SpanDigits(s, i + 1)
        k == SpanSpaces(s, i + n + 1)
        unit == TrimEnd(SubSeq(s, i + n + k + 1, Len(s)))
    IN  IF n >= 1 /\ Lower(unit) \in UnitForms
        THEN <<SubSeq(s, i + 1, i + n)>>
        ELSE <<>>

parse_months(s) ==
    LET caps == MonthsCaptures(s)
    IN  IF caps = <<>> THEN Err("Invalid months value")
        ELSE LET n == ParseI32(caps[1])
             IN  IF ~n.ok THEN Err("parse")
                 ELSE IF n.v < 0 THEN Err("Months must be non-negative")
                 ELSE Ok(n.v)

----------------------------------------------------------------------------
(* build_date_regex and Regex::captures                                    *)

\* A plausible slip: the month written with \d{1,2}.
build_date_regex_loose(date_pattern, index_prefix) ==
    IF date_pattern = "Month"
    THEN [prefix |-> index_prefix, seps |-> {".", "-"}, partMin |-> 1, partMax |-> 2]
    ELSE [prefix |-> index_prefix, seps |-> {"-"}, partMin |-> 1, partMax |-> 2]

\* ^<escaped prefix>(\d{4})[\.-](\d{2})$ and ^<escaped prefix>(\d{4})-(\d{1,2})$
build_date_regex(date_pattern, index_prefix) ==
    IF date_pattern = "Month"
    THEN [prefix |-> index_prefix, seps |-> {".", "-"}, partMin |-> 2, partMax |-> 2]
    ELSE [prefix |-> index_prefix, seps |-> {"-"}, partMin |-> 1, partMax |-> 2]

\* <<year text, part text>> when the whole name has the shape, <<>> otherwise.
Captures(re, name) ==
    LET p == Len(re.prefix)
        k == Len(name) - p - 5
    IN  IF /\ k >= re.partMin
           /\ k <= re.partMax
           /\ SubSeq(name, 1, p) = re.prefix
           /\ \A i \in (p + 1)..(p + 4) : IsDigitClass(name[i])
           /\ name[p + 5] \in re.seps
           /\ \A i \in (p + 6)..Len(name) : IsDigitClass(name[i])
        THEN <<SubSeq(name, p + 1, p + 4), SubSeq(name, p + 6, Len(name))>>
        ELSE <<>>

----------------------------------------------------------------------------
(* chrono::NaiveDate                                                       *)

IsLeap(y) == (y % 4 = 0 /\ y % 100 # 0) \/ y % 400 = 0

NDays(y) == IF IsLeap(y) THEN 366 ELSE 365

DaysInMonth(y, m) ==
    CASE m \in {1, 3, 5, 7, 8, 10, 12} -> 31
      [] m \in {4, 6, 9, 11} -> 30
      [] m = 2 -> IF IsLeap(y) THEN 29 ELSE 28

\* Days from 0001-01-01 (a Monday) to the first of January of year y.
DaysBeforeYear(y) ==
    365 * (y - 1) + ((y - 1) \div 4) - ((y - 1) \div 100) + ((y - 1) \div 400)

\* Weekday of the first of January, Monday = 0 .. Sunday = 6.
Jan1Weekday(y) == DaysBeforeYear(y) % 7

RECURSIVE DaysBeforeMonth(_, _)
DaysBeforeMonth(y, m) ==
    IF m = 1 THEN 0 ELSE DaysBeforeMonth(y, m - 1) + DaysInMonth(y, m - 1)

RECURSIVE MonthOfOrdinal(_, _, _)
MonthOfOrdinal(y, ord, m) ==
    IF ord <= DaysBeforeMonth(y, m) + DaysInMonth(y, m) THEN m
    ELSE MonthOfOrdinal(y, ord, m + 1)

\* NaiveDate::from_yo: the date of the ord-th day of year y.
FromYo(y, ord) ==
    LET m == MonthOfOrdinal(y, ord, 1)
    IN  [year |-> y, month |-> m, day |-> ord - DaysBeforeMonth(y, m)]

\* NaiveDate::from_ymd_opt(y, m, d), year within chrono's range.
from_ymd_opt(y, m, d) ==
    IF m \in 1..12 /\ d >= 1 /\ d <= DaysInMonth(y, m)
    THEN Ok([year |-> y, month |-> m, day |-> d])
    ELSE Err("invalid date")

\* Number of ISO weeks of year y.
NIsoWeeks(y) ==
    IF Jan1Weekday(y) = 3 \/ (IsLeap(y) /\ Jan1Weekday(y) = 2) THEN 53 ELSE 52

\* NaiveDate::from_isoywd_opt(y, week, Weekday::Mon): the Monday of ISO week
\* `week` of ISO year y; week 1 is the week that holds the 4th of January.
from_isoywd_opt_mon(y, week) ==
    IF week < 1 \/ week > NIsoWeeks(y) THEN Err("invalid ISO week")
    ELSE LET wd == Jan1Weekday(y)
             first == IF wd <= 3 THEN 1 - wd ELSE 8 - wd
             ord == first + 7 * (week - 1)
         IN  IF ord < 1 THEN Ok(FromYo(y - 1, ord + NDays(y - 1)))
             ELSE IF ord <= NDays(y) THEN Ok(FromYo(y, ord))
             ELSE Ok(FromYo(y + 1, ord - NDays(y)))

----------------------------------------------------------------------------
(* months_between, age_months_from_parts                                   *)

\* A plausible slip: the year difference left out.
months_between_no_year(n, then) == n.month - then.month

\* A plausible slip: the operands swapped.
months_between_swapped(n, then) ==
    (then.year - n.year) * 12 + (then.month - n.month)

months_between(n, then) ==
    (n.year - then.year) * 12 + (n.month - then.month)

\* Lines 82-97: the first day of the month the parts stand for.
then_first(date_pattern, year, part) ==
    IF date_pattern = "Month"
    THEN IF part \notin 1..12 THEN Err("month out of range")
         ELSE LET d == from_ymd_opt(year, part, 1)
              IN  IF ~d.ok THEN Err("invalid month") ELSE d
    ELSE IF part \notin 1..53 THEN Err("week out of range")
         ELSE LET then == from_isoywd_opt_mon(year, part)
              IN  IF ~then.ok THEN Err("invalid ISO week")
                  ELSE from_ymd_opt(then.v.year, then.v.month, 1)

age_months_from_parts(date_pattern, year, part, now_first) ==
    LET t == then_first(date_pattern, year, part)
    IN  IF ~t.ok THEN t ELSE Ok(months_between(now_first, t.v))

----------------------------------------------------------------------------
(* The inputs of a run.                                                    *)

MaxItems == 2

Patterns == {"Month", "Week"}

index_prefix == <<"p", "-">>

\* --older-than texts: "0m", "2m", " 12 Months ", then the rejected ones
\* "abc", "-1m", "25", "4294967297m" and "<U+0663>m".
OlderThanTexts ==
    { <<"0", "m">>,
      <<"2", "m">>,
      <<" ", "1", "2", " ", "M", "o", "n", "t", "h", "s", " ">>,
      <<"a", "b", "c">>,
      <<"-", "1", "m">>,
      <<"2", "5">>,
      <<"4", "2", "9", "4", "9", "6", "7", "2", "9", "7", "m">>,
      <<UDigit, "m">> }

\* Utc::now().date_naive() of the run.
Nows == { [year |-> 2025, month |-> 3, day |-> 15],
          [year |-> 2025, month |-> 1, day |-> 31] }

Name(tail) == index_prefix \o tail

\* Index names the listing call may return.
IndexNames ==
    { Name(<<"2", "0", "2", "3", "-", "0", "1">>),
      Name(<<"2", "0", "2", "5", ".", "0", "1">>),
      Name(<<"2", "0", "2", "5", "-", "0", "1">>),
      Name(<<"2", "0", "2", "5", "-", "0", "2">>),
      Name(<<"2", "0", "2", "5", "-", "3">>),
      Name(<<"2", "0", "2", "5", "-", "5", "3">>),
      Name(<<"2", "0", "2", "5", "-", "0", "0">>),
      Name(<<"2", "0", "2", "6", "-", "0", "1">>),
      Name(<<"2", "0", "2", "5", "-", "5", "4">>),
      Name(<<"2", "0", "2", "5", "-", "0", UDigit>>) }

\* The bodies a successful listing call may carry: up to MaxItems distinct names.
Listings ==
    UNION { { s \in [1..n -> IndexNames] :
                \A i, j \in 1..n : i # j => s[i] # s[j] } : n \in 0..MaxItems }

----------------------------------------------------------------------------
(* main, lines 164-219: sort the names, scan them, sort the targets.       *)

Replace(s, from, to) == [i \in 1..Len(s) |-> IF s[i] = from THEN to ELSE s[i]]

strip_prefix(s, p) ==
    IF Len(s) >= Len(p) /\ SubSeq(s, 1, Len(p)) = p
    THEN SubSeq(s, Len(p) + 1, Len(s))
    ELSE s

\* str::cmp(a, b) is Less or Equal, from position i on.
RECURSIVE StrLeqFrom(_, _, _)
StrLeqFrom(a, b, i) ==
    IF i > Len(a) THEN TRUE
    ELSE IF i > Len(b) THEN FALSE
    ELSE IF ByteOf(a[i]) < ByteOf(b[i]) THEN TRUE
    ELSE IF ByteOf(a[i]) > ByteOf(b[i]) THEN FALSE
    ELSE StrLeqFrom(a, b, i + 1)

SortKey(name, prefix) == strip_prefix(Replace(name, ".", "-"), prefix)

ItemLeq(a, b, prefix) == StrLeqFrom(SortKey(a, prefix), SortKey(b, prefix), 1)

\* Vec::sort_by is stable: x goes after every element that is not greater.
RECURSIVE InsertItem(_, _, _)
InsertItem(sorted, x, prefix) ==
    IF sorted = <<>> THEN <<x>>
    ELSE IF ItemLeq(sorted[Len(sorted)], x, prefix) THEN Append(sorted, x)
    ELSE Append(InsertItem(SubSeq(sorted, 1, Len(sorted) - 1), x, prefix),
                sorted[Len(sorted)])

RECURSIVE SortItemsFrom(_, _, _, _)
SortItemsFrom(s, i, acc, prefix) ==
    IF i > Len(s) THEN acc
    ELSE SortItemsFrom(s, i + 1, InsertItem(acc, s[i], prefix), prefix)

SortItems(s, prefix) == SortItemsFrom(s, 1, <<>>, prefix)

\* The age of one listed name, or why the loop skips it (lines 186-207).
ItemAge(re, date_pattern, now_first, name) ==
    LET caps == Captures(re, name)
    IN  IF caps = <<>> THEN Err("no match")
        ELSE LET y == ParseI32(caps[1])
                 part == ParseU32(caps[2])
             IN  IF ~y.ok THEN Err("bad year")
                 ELSE IF ~part.ok THEN Err("bad date part")
                 ELSE age_months_from_parts(date_pattern, y.v, part.v, now_first)

\* A plausible slip: strictly older than the cutoff.
PassesCutoff_strict(age_months, cutoff) == age_months > cutoff

\* Line 210.
PassesCutoff(age_months, cutoff) == age_months >= cutoff

\* A plausible slip: `break` where the loop has `continue`.
RECURSIVE ScanItems_break(_, _, _, _, _, _, _)
ScanItems_break(its, i, acc, re, date_pattern, now_first, cutoff) ==
    IF i > Len(its) THEN acc
    ELSE LET age == ItemAge(re, date_pattern, now_first, its[i])
         IN  IF ~age.ok THEN acc
             ELSE IF PassesCutoff(age.v, cutoff)
             THEN ScanItems_break(its, i + 1,
                                  Append(acc, [index |-> its[i], age |-> age.v]),
                                  re, date_pattern, now_first, cutoff)
             ELSE ScanItems_break(its, i + 1, acc, re, date_pattern, now_first, cutoff)

\* for it in items { ... } : lines 185-216.
RECURSIVE ScanItems(_, _, _, _, _, _, _)
ScanItems(its, i, acc, re, date_pattern, now_first, cutoff) ==
    IF i > Len(its) THEN acc
    ELSE LET age == ItemAge(re, date_pattern, now_first, its[i])
         IN  IF age.ok /\ PassesCutoff(age.v, cutoff)
             THEN ScanItems(its, i + 1,
                            Append(acc, [index |-> its[i], age |-> age.v]),
                            re, date_pattern, now_first, cutoff)
             ELSE ScanItems(its, i + 1, acc, re, date_pattern, now_first, cutoff)

\* The other comparator, b.1.cmp(&a.1).
TargetLeq_desc(a, b) == a.age >= b.age

\* Line 219: a.1.cmp(&b.1).
TargetLeq(a, b) == a.age <= b.age

RECURSIVE InsertTarget(_, _)
InsertTarget(sorted, x) ==
    IF sorted = <<>> THEN <<x>>
    ELSE IF TargetLeq(sorted[Len(sorted)], x) THEN Append(sorted, x)
    ELSE Append(InsertTarget(SubSeq(sorted, 1, Len(sorted) - 1), x),
                sorted[Len(sorted)])

RECURSIVE SortTargetsFrom(_, _, _)
SortTargetsFrom(s, i, acc) ==
    IF i > Len(s) THEN acc
    ELSE SortTargetsFrom(s, i + 1, InsertTarget(acc, s[i]))

SortTargets(s) == SortTargetsFrom(s, 1, <<>>)

\* Lines 181-182.
NowFirst(n) == from_ymd_opt(n.year, n.month, 1).v

\* Lines 179-219: the deletion plan of the sorted names.
PlanTargets(its, a, n, cutoff) ==
    SortTargets(ScanItems(its, 1, <<>>,
                          build_date_regex(a.date_pattern, a.index_prefix),
                          a.date_pattern, NowFirst(n), cutoff))

\* Lines 168-219: the deletion plan of a listing.
BuildTargets(listing, a, n, cutoff) ==
    PlanTargets(SortItems(listing, a.index_prefix), a, n, cutoff)

\* A plausible slip: the flag read the wrong way round.
Dryrun_inverted(a) == a.no_dryrun

\* Line 226.
Dryrun(a) == ~a.no_dryrun

----------------------------------------------------------------------------
(* The run of main.                                                        *)

NoCutoff == [ok |-> FALSE, err |-> "unset"]

Init ==
    /\ args \in [ username : BOOLEAN, password : BOOLEAN, url_ok : BOOLEAN,
                  index_prefix : {index_prefix}, older_than : OlderThanTexts,
                  date_pattern : Patterns, no_dryrun : BOOLEAN ]
    /\ now \in Nows
    /\ pc = "start"
    /\ months_cutoff = NoCutoff
    /\ cat_requests = 0
    /\ response = <<>>
    /\ items = <<>>
    /\ targets = <<>>
    /\ reported = <<>>
    /\ del_requests = <<>>
    /\ del_errors = <<>>
    /\ fn_in = <<>>
    /\ fn_out = <<>>

\* A plausible slip: the check of the two flags left out.
CredentialsOk_always(a) == TRUE

\* Lines 112-116.
CredentialsOk(a) == a.username = a.password

\* Lines 109-156: check the arguments, then send the listing request.
Start ==
    /\ pc = "start"
    /\ IF ~CredentialsOk(args)
       THEN pc' = "failed" /\ UNCHANGED <<months_cutoff, cat_requests>>
       ELSE LET m == parse_months(args.older_than)
            IN  IF ~m.ok
                THEN pc' = "failed" /\ UNCHANGED <<months_cutoff, cat_requests>>
                ELSE /\ months_cutoff' = m
                     /\ IF ~args.url_ok
                        THEN pc' = "failed" /\ UNCHANGED cat_requests
                        ELSE pc' = "await_cat" /\ cat_requests' = cat_requests + 1
    /\ UNCHANGED <<args, now, response, items, targets, reported,
                   del_requests, del_errors, fn_in, fn_out>>

\* Lines 156-164: the request fails in transport, the status is not a success,
\* or the body is not the expected JSON.
CatFails ==
    /\ pc = "await_cat"
    /\ pc' = "failed"
    /\ UNCHANGED <<args, now, months_cutoff, cat_requests, response, items,
                   targets, reported, del_requests, del_errors, fn_in, fn_out>>

\* Lines 164-237: the names arrive; plan, then report (dry run) or go on to
\* delete (live).
CatResponse ==
    /\ pc = "await_cat"
    /\ \E listing \in Listings :
         /\ response' = listing
         /\ items' = SortItems(listing, args.index_prefix)
         /\ targets' = PlanTargets(items', args, now, months_cutoff.v)
         /\ IF targets' = <<>> THEN pc' = "done" /\ reported' = reported
            ELSE IF Dryrun(args) THEN pc' = "done" /\ reported' = targets'
            ELSE pc' = "deleting" /\ reported' = reported
    /\ UNCHANGED <<args, now, months_cutoff, cat_requests,
                   del_requests, del_errors, fn_in, fn_out>>

\* Lines 240-258, one iteration: send DELETE for the next target and take the
\* answer.  A transport error leaves main through `?` (line 249).
DeleteStep ==
    /\ pc = "deleting"
    /\ LET i == Len(del_requests) + 1
           idx == targets[i].index
       IN  /\ del_requests' = Append(del_requests, idx)
           /\ \E outcome \in {"success", "status_error", "transport_error"} :
                /\ del_errors' = IF outcome = "status_error"
                                 THEN Append(del_errors, idx) ELSE del_errors
                /\ pc' = IF outcome = "transport_error" THEN "failed"
                         ELSE IF i = Len(targets) THEN "done"
                         ELSE "deleting"
    /\ UNCHANGED <<args, now, months_cutoff, cat_requests, response, items,
                   targets, reported, fn_in, fn_out>>

Next == Start \/ CatFails \/ CatResponse \/ DeleteStep

Spec == Init /\ [][Next]_vars

----------------------------------------------------------------------------
(* age_months_from_parts on its own: the inputs are drawn, then it is      *)
(* applied once.                                                           *)

MaxYearSpan == 8

AgeYears == 2019..(2019 + MaxYearSpan)

\* Every value two decimal digits can spell.
PartValues == 0..99

InitAge ==
    /\ fn_in \in [ date_pattern : Patterns, year : AgeYears, part : PartValues,
                   now_first : { NowFirst(n) : n \in Nows } ]
    /\ fn_out = <<>>
    /\ args = <<>>
    /\ now = <<>>
    /\ pc = "unit"
    /\ months_cutoff = NoCutoff
    /\ cat_requests = 0
    /\ response = <<>>
    /\ items = <<>>
    /\ targets = <<>>
    /\ reported = <<>>
    /\ del_requests = <<>>
    /\ del_errors = <<>>

CallAge ==
    /\ pc = "unit"
    /\ fn_out = <<>>
    /\ fn_out' = <<age_months_from_parts(fn_in.date_pattern, fn_in.year,
                                         fn_in.part, fn_in.now_first)>>
    /\ UNCHANGED <<args, now, pc, months_cutoff, cat_requests, response, items,
                   targets, reported, del_requests, del_errors, fn_in>>

NextAge == CallAge

SpecAge == InitAge /\ [][NextAge]_vars

----------------------------------------------------------------------------
(* Vocabulary of the properties.                                           *)

Range(seq) == { seq[i] : i \in 1..Len(seq) }

Planned == { targets[i].index : i \in 1..Len(targets) }

Requested == { del_requests[i] : i \in 1..Len(del_requests) }

Listed == { response[i] : i \in 1..Len(response) }

Count(seq, x) == Cardinality({ i \in 1..Len(seq) : seq[i] = x })

\* The spec's shapes, digits read as 0-9: <prefix><4 digits><'-' or '.'>
\* <2 digits> for Month, <prefix><4 digits>-<1 or 2 digits> for Week.
HasShape(date_pattern, name) ==
    LET p == Len(index_prefix)
        k == Len(name) - p - 5
    IN  /\ k \in (IF date_pattern = "Month" THEN {2} ELSE {1, 2})
        /\ \A i \in 1..p : name[i] = index_prefix[i]
        /\ \A i \in (p + 1)..(p + 4) : name[i] \in AsciiDigits
        /\ name[p + 5] \in (IF date_pattern = "Month" THEN {"-", "."} ELSE {"-"})
        /\ \A i \in (p + 6)..Len(name) : name[i] \in AsciiDigits

\* The number a name of the shape spells after its separator.
PartNumber(name) ==
    LET q == SubSeq(name, Len(index_prefix) + 6, Len(name))
    IN  IF Len(q) = 1 THEN DigitVal(q[1])
        ELSE 10 * DigitVal(q[1]) + DigitVal(q[2])

YearNumber(name) ==
    LET p == Len(index_prefix)
    IN  1000 * DigitVal(name[p + 1]) + 100 * DigitVal(name[p + 2])
          + 10 * DigitVal(name[p + 3]) + DigitVal(name[p + 4])

PartOutOfRange(date_pattern, name) ==
    /\ HasShape(date_pattern, name)
    /\ IF date_pattern = "Month" THEN PartNumber(name) \notin 1..12
       ELSE PartNumber(name) \notin 1..53

\* The age main computes for a listed name in the current run.
AgeOf(name) ==
    ItemAge(build_date_regex(args.date_pattern, args.index_prefix),
            args.date_pattern, NowFirst(now), name)

\* The plan main would build from another listing in the current run.
PlanOf(listing) == BuildTargets(listing, args, now, months_cutoff.v)

Without(listing, Bad(_)) == SelectSeq(listing, LAMBDA n : ~Bad(n))

\* Calendar facts stated apart from the date arithmetic above.
CumDays == <<0, 31, 59, 90, 120, 151, 181, 212, 243, 273, 304, 334>>

LeapYear(y) == IF y % 400 = 0 THEN TRUE ELSE IF y % 100 = 0 THEN FALSE ELSE y % 4 = 0

OrdinalOf(y, m, d) == CumDays[m] + d + (IF m > 2 /\ LeapYear(y) THEN 1 ELSE 0)

MonthLen(y, m) ==
    IF m = 12 THEN 31 ELSE OrdinalOf(y, m + 1, 1) - OrdinalOf(y, m, 1)

\* Sakamoto's day of the week, turned to Monday = 0.
SakamotoT == <<0, 3, 2, 5, 0, 3, 5, 1, 4, 6, 2, 4>>

WeekdayOf(y, m, d) ==
    LET yy == IF m < 3 THEN y - 1 ELSE y
        sun0 == (yy + (yy \div 4) - (yy \div 100) + (yy \div 400)
                   + SakamotoT[m] + d) % 7
    IN  (sun0 + 6) % 7

\* (y, m, d) is the Monday of ISO week `week` of ISO year `year`: the week's
\* Thursday lies in `year` and is the week-th Thursday of it.
IsIsoMonday(year, week, y, m, d) ==
    /\ d <= MonthLen(y, m)
    /\ WeekdayOf(y, m, d) = 0
    /\ LET len == IF LeapYear(y) THEN 366 ELSE 365
           o == OrdinalOf(y, m, d) + 3
           thuYear == IF o > len THEN y + 1 ELSE y
           thuOrd == IF o > len THEN o - len ELSE o
       IN  thuYear = year /\ ((thuOrd - 1) \div 7) + 1 = week


\* The date a listed name stands for lies in a month after the current one.
EncodesFuture(name) ==
    /\ HasShape(args.date_pattern, name)
    /\ LET t == then_first(args.date_pattern, YearNumber(name), PartNumber(name))
       IN  t.ok /\ t.v.year * 12 + t.v.month > now.year * 12 + now.month

\* The --older-than texts of the pool that the grammar or the integer type
\* rejects: "abc", "-1m", "25", "4294967297m", "<U+0663>m".
RejectedTexts ==
    { <<"a", "b", "c">>,
      <<"-", "1", "m">>,
      <<"2", "5">>,
      <<"4", "2", "9", "4", "9", "6", "7", "2", "9", "7", "m">>,
      <<UDigit, "m">> }

ConfigError == args.username # args.password \/ args.older_than \in RejectedTexts

\* The scan of the names never ends the run with an error: a run that got
\* its names fails only on a delete request.
ScanRaisesNoError == (pc = "failed" /\ response # <<>>) => del_requests # <<>>

----------------------------------------------------------------------------
(* The claims.                                                             *)

\* C1: in dry-run mode (--no-dryrun not given) no delete request is ever
\* issued, whatever the listing and the threshold; the plan is only reported.
C1_DryRunDeletesNothing ==
    ~args.no_dryrun =>
        /\ del_requests = <<>>
        /\ pc # "deleting"
        /\ (pc = "done" => reported = targets)

C1_Witness ==
    /\ ~args.no_dryrun
    /\ pc = "done"
    /\ Len(targets) >= 2
    /\ reported = targets

\* C2: a listed name of the active shape whose part is in range is in the
\* deletion plan exactly when its age was computed and is >= the threshold.
C2_SelectedIffOldEnough ==
    \A n \in Listed :
        (HasShape(args.date_pattern, n) /\ ~PartOutOfRange(args.date_pattern, n)) =>
            LET a == AgeOf(n)
            IN  /\ n \in Planned <=> (a.ok /\ a.v >= months_cutoff.v)
                /\ n \in Planned => [index |-> n, age |-> a.v] \in Range(targets)

C2_Witness ==
    /\ months_cutoff.ok
    /\ months_cutoff.v = 2
    /\ \E n \in Listed : AgeOf(n).ok /\ AgeOf(n).v = 2 /\ n \in Planned
    /\ \E n \in Listed : AgeOf(n).ok /\ AgeOf(n).v = 1 /\ n \notin Planned

\* C3: in live mode every planned name has exactly one delete request by the
\* end of the run, whatever the outcome of the earlier delete requests.
C3_EveryPlannedDeletedOnce ==
    (args.no_dryrun /\ pc \in {"done", "failed"}) =>
        \A n \in Planned : Count(del_requests, n) = 1

\* C4: a listed name that has not the active shape is never planned and never
\* deleted, raises no error, and the other names are planned as without it.
C4_NonMatchingIgnored ==
    /\ \A n \in Listed :
         ~HasShape(args.date_pattern, n) => n \notin Planned /\ n \notin Requested
    /\ response # <<>> =>
         targets = PlanOf(Without(response, LAMBDA n : ~HasShape(args.date_pattern, n)))
    /\ ScanRaisesNoError

C4_Witness ==
    /\ \E n \in Listed : ~HasShape(args.date_pattern, n)
    /\ \E n \in Listed : n \in Requested
    /\ pc = "done"

\* C5: a name whose date lies in a month after the current one is never
\* selected, the threshold is never negative, and no error comes of it.
C5_FutureNeverSelected ==
    /\ months_cutoff.ok => months_cutoff.v >= 0
    /\ \A n \in Listed :
         EncodesFuture(n) =>
            /\ LET a == AgeOf(n) IN a.ok /\ a.v < 0
            /\ n \notin Planned
            /\ n \notin Requested
    /\ ScanRaisesNoError

C5_Witness ==
    /\ months_cutoff.ok
    /\ months_cutoff.v = 0
    /\ \E n \in Listed : EncodesFuture(n)
    /\ targets # <<>>
    /\ pc = "done"

C7_OldestFirst ==
    /\ \A i, j \in 1..Len(reported) : i < j => reported[i].age >= reported[j].age
    /\ \A i \in 1..Len(del_requests) :
         \A j \in 1..Len(targets) : i < j => targets[i].age >= targets[j].age

\* C8: a configuration error (a rejected threshold text, or one of username
\* and password without the other) ends the run with an error before any
\* listing request and any delete request.
C8_ConfigErrorBeforeIO ==
    ConfigError =>
        /\ cat_requests = 0
        /\ del_requests = <<>>
        /\ response = <<>>
        /\ pc \in {"start", "failed"}

C8_Witness ==
    /\ pc = "failed"
    /\ args.username = args.password
    /\ args.url_ok
    /\ args.older_than = <<"-", "1", "m">>

\* C9: a name of the shape whose part is out of range (month outside 1..12,
\* week outside 1..53) is skipped and never planned, and the other names are
\* planned exactly as if it were absent.
C9_OutOfRangeSkipped ==
    /\ \A n \in Listed :
         PartOutOfRange(args.date_pattern, n) =>
            /\ ~AgeOf(n).ok
            /\ n \notin Planned
            /\ n \notin Requested
    /\ response # <<>> =>
         targets = PlanOf(Without(response, LAMBDA n : PartOutOfRange(args.date_pattern, n)))
    /\ ScanRaisesNoError

C9_Witness ==
    /\ \E n \in Listed : PartOutOfRange(args.date_pattern, n)
    /\ \E i \in 1..Len(items) :
         /\ PartOutOfRange(args.date_pattern, items[i])
         /\ \E j \in (i + 1)..Len(items) : items[j] \in Requested
    /\ pc = "done"

\* C10: the age is (reference year - then year) * 12 + (reference month -
\* then month); then is (year, part) under Month and the year and month of the
\* Monday of ISO week (year, part) under Week.  With reference 2025-03-01,
\* Month 2025-01 gives 2 and Week 2025 week 1 gives 3; the next week has the
\* same age when its Monday lies in the same month.
C10_AgeInMonths ==
    fn_out # <<>> =>
        LET r == fn_out[1]
            ref == fn_in.now_first
            y == fn_in.year
            w == fn_in.part
            Mondays(week) ==
                { <<ty, tm>> \in {y - 1, y} \X (1..12) :
                    \E d \in 1..31 : IsIsoMonday(y, week, ty, tm, d) }
            AgeFrom(t) == (ref.year - t[1]) * 12 + (ref.month - t[2])
        IN  /\ (fn_in.date_pattern = "Month" /\ w \in 1..12) =>
                 r.ok /\ r.v = (ref.year - y) * 12 + (ref.month - w)
            /\ (fn_in.date_pattern = "Month" /\ w \notin 1..12) => ~r.ok
            /\ fn_in.date_pattern = "Week" =>
                 /\ r.ok <=> Mondays(w) # {}
                 /\ r.ok => \A t \in Mondays(w) : r.v = AgeFrom(t)
                 /\ r.ok =>
                      LET r2 == age_months_from_parts("Week", y, w + 1, ref)
                      IN  (r2.ok /\ Mondays(w + 1) = Mondays(w)) => r2.v = r.v
            /\ (y = 2025 /\ w = 1 /\ ref = [year |-> 2025, month |-> 3, day |-> 1]) =>
                 r = Ok(IF fn_in.date_pattern = "Month" THEN 2 ELSE 3)

C10_Witness ==
    /\ fn_out # <<>>
    /\ fn_in.date_pattern = "Week"
    /\ fn_in.year = 2025
    /\ fn_in.part = 1
    /\ fn_in.now_first = [year |-> 2025, month |-> 3, day |-> 1]
    /\ fn_out[1] = Ok(3)

====
